---- MODULE Spec2Model ----
(***************************************************************************)
(* Model of main.py of traduccion-backend: the synchronisation of the two  *)
(* source workbooks, the readiness flag, and the /data and /export         *)
(* pipelines (dedup of the reference table, left join, filter, summary,    *)
(* template export).                                                       *)
(*                                                                         *)
(* Cells are records: [t |-> "nan"] is a missing cell (NaN / None / NaT),  *)
(* [t |-> "str", s |-> <<chars>>] is text, [t |-> "num", n |-> k] a number,*)
(* [t |-> "fecha", d |-> <<y, m, d>>] a timestamp,                         *)
(* [t |-> "formula", ...] a spreadsheet formula.  Text is a sequence of    *)
(* one-character strings.                                                  *)
(*                                                                         *)
(* Library calls are modelled by what pandas 1.x/2.x and openpyxl do:      *)
(* astype(str) prints a missing value ("nan", "None", "NaT"),              *)
(* str.contains reads its pattern as a regular expression, duplicated()    *)
(* and merge() take missing keys as equal to each other.                   *)
(***************************************************************************)
EXTENDS Integers, Sequences, FiniteSets, TLC

\* ------------------------------------------------------------------ cells

NaN == [t |-> "nan"]
Txt(s) == [t |-> "str", s |-> s]
Num(k) == [t |-> "num", n |-> k]
Fecha(y, m, d) == [t |-> "fecha", d |-> <<y, m, d>>]

\* pd.notna(v)
notna(v) == v.t # "nan"

Cifras == <<"0", "1", "2", "3", "4", "5", "6", "7", "8", "9">>

\* A two-digit field, as strftime('%d') and ('%m') and str(Timestamp) print it.
DosDigitos(k) == <<Cifras[(k \div 10) + 1], Cifras[(k % 10) + 1]>>

\* The decimal digits of a natural number, as characters.
RECURSIVE Digitos(_)
Digitos(k) ==
    IF k < 10 THEN <<Cifras[k + 1]>>
    ELSE Digitos(k \div 10) \o <<Cifras[(k % 10) + 1]>>

\* str(v) of one cell, the element-wise conversion of Series.astype(str):
\* a missing cell becomes the text "nan"; a timestamp prints as YYYY-MM-DD
\* (the time of day, always midnight here, is left out).
astype_str(v) ==
    CASE v.t = "nan" -> <<"n", "a", "n">>
      [] v.t = "str" -> v.s
      [] v.t = "num" -> Digitos(v.n)
      [] v.t = "fecha" -> Digitos(v.d[1]) \o <<"-">> \o DosDigitos(v.d[2])
                          \o <<"-">> \o DosDigitos(v.d[3])

\* fecha_obj.strftime('%d/%m/%Y')
strftime_dmy(v) ==
    DosDigitos(v.d[3]) \o <<"/">> \o DosDigitos(v.d[2]) \o <<"/">> \o Digitos(v.d[1])

\* Case folding of re.IGNORECASE on the letters the model uses.
lower(ch) ==
    CASE ch = "A" -> "a"
      [] ch = "B" -> "b"
      [] ch = "N" -> "n"
      [] ch = "X" -> "x"
      [] OTHER -> ch

\* One regex atom against one character: "." matches any character, a
\* literal matches itself up to case.
AtomMatches(p, ch) == p = "." \/ lower(p) = lower(ch)

\* re.search(pat, s, re.IGNORECASE) for a pattern of literals and ".":
\* what Series.str.contains(pat, case=False) computes per element
\* (regex=True is the default).
str_contains(s, pat) ==
    \E off \in 0..(Len(s) - Len(pat)) :
        \A j \in 1..Len(pat) : AtomMatches(pat[j], s[off + j])

\* pd.to_numeric(v, errors='coerce') followed by .fillna(0)
RECURSIVE ParseNat(_, _)
ParseNat(s, acc) ==
    IF s = <<>> THEN acc
    ELSE ParseNat(Tail(s), 10 * acc + ((CHOOSE k \in 1..10 : Cifras[k] = Head(s)) - 1))

to_numeric(v) ==
    CASE v.t = "num" -> v.n
      [] v.t = "str" /\ v.s # <<>> /\ (\A i \in 1..Len(v.s) : \E k \in 1..10 : Cifras[k] = v.s[i])
            -> ParseNat(v.s, 0)
      [] OTHER -> 0

\* ------------------------------------------------------------ data frames
\* A frame is a sequence of rows; a row is a function from column names to
\* cells.

ColsTraduccion == {"Modelo", "Codigo", "Descripcion", "Material", "Uso", "Marca"}

ColsCompras ==
    {"Item", "Cantidad", "Num_OC", "Num_invoice", "PaisOrigen", "Moneda", "PCU1",
     "Flete_US$", "OperadorLogistico", "Fecha_Invoice", "GrupoImportacion",
     "Num_DocTransporte", "RazonSocial_Proveedor", "Incoterm", "Forma_Pago",
     "Status_OCI", "Codigo_Comercial"}

\* duplicated(keep='last'): the last occurrence is the one kept.
duplicatedLast(col) ==
    [i \in 1..Len(col) |-> \E j \in (i + 1)..Len(col) : col[j] = col[i]]

\* Series.duplicated(): position i is marked when its value occurred at an
\* earlier position (keep='first'); missing values equal each other.
duplicated(col) ==
    [i \in 1..Len(col) |-> \E j \in 1..(i - 1) : col[j] = col[i]]

\* frame[mask]: the positions the mask keeps, in order.
RECURSIVE Keep(_, _, _)
Keep(idx, mask, i) ==
    IF i > Len(idx) THEN <<>>
    ELSE (IF mask[i] THEN <<idx[i]>> ELSE <<>>) \o Keep(idx, mask, i + 1)

\* a['ID'] = a['Modelo'].astype(str) + '-' + a['Codigo'].astype(str)
ID(row) == astype_str(row["Modelo"]) \o <<"-">> \o astype_str(row["Codigo"])

\* The dedup without its second step: only the composite key is made unique.
DedupIndexSoloID(a) ==
    Keep([i \in 1..Len(a) |-> i],
         [i \in 1..Len(a) |-> ~duplicated([k \in 1..Len(a) |-> ID(a[k])])[i]], 1)

\* The index labels (positions in a) of b:
\*   b = a[~a['ID'].duplicated()] ; b = b[~b['Modelo'].duplicated()]
DedupIndex(a) ==
    LET all == [i \in 1..Len(a) |-> i]
        dupID == duplicated([i \in 1..Len(a) |-> ID(a[i])])
        b1 == Keep(all, [i \in 1..Len(a) |-> ~dupID[i]], 1)
        dupModelo == duplicated([k \in 1..Len(b1) |-> a[b1[k]]["Modelo"]])
    IN  Keep(b1, [k \in 1..Len(b1) |-> ~dupModelo[k]], 1)

\* The rows of a at the index labels idx, with the ID column and
\* b['Codigo_Comercial'] = b['Modelo'].
ConClave(a, idx) ==
    [k \in 1..Len(idx) |->
        a[idx[k]] @@ ("ID" :> Txt(ID(a[idx[k]])))
                  @@ ("Codigo_Comercial" :> a[idx[k]]["Modelo"])]

\* b of obtener_datos and exportar_datos.
Dedup(a) == ConClave(a, DedupIndex(a))

ColsB == ColsTraduccion \cup {"ID"}

\* pd.merge(c, b, how='left', on='Codigo_Comercial'): for each row of c in
\* order, one output row per row of b with an equal key (in b's order), or
\* one row with b's columns missing when there is none.
RECURSIVE Flatten(_)
Flatten(ss) == IF ss = <<>> THEN <<>> ELSE Head(ss) \o Flatten(Tail(ss))

MergeHits(crow, b, hits) ==
    IF hits = <<>> THEN << crow @@ [col \in ColsB |-> NaN] >>
    ELSE [h \in 1..Len(hits) |-> crow @@ [col \in ColsB |-> b[hits[h]][col]]]

MergeRow(crow, b) ==
    MergeHits(crow, b,
              Keep([k \in 1..Len(b) |-> k],
                   [k \in 1..Len(b) |-> b[k]["Codigo_Comercial"] = crow["Codigo_Comercial"]], 1))

merge(c, b) == Flatten([i \in 1..Len(c) |-> MergeRow(c[i], b)])

\* df.rename(columns=new_columns)
new_columns ==
    [Cantidad |-> "Cant", Num_OC |-> "Nº O.COMPRA", Num_invoice |-> "FACTURA",
     PaisOrigen |-> "País De Origen", PCU1 |-> "Precio Unitario",
     OperadorLogistico |-> "TRANSPORTISTA", Fecha_Invoice |-> "FECHA FACTURA",
     GrupoImportacion |-> "Nº EMBARQUE", Num_DocTransporte |-> "Air Waybill",
     RazonSocial_Proveedor |-> "PROVEEDOR", Incoterm |-> "INCOTERM",
     Forma_Pago |-> "FORMA DE PAGO", Status_OCI |-> "ESTADO"]
    @@ ("Flete_US$" :> "Flete")

Renamed(col) == IF col \in DOMAIN new_columns THEN new_columns[col] ELSE col

rename(row) ==
    [n \in {Renamed(col) : col \in DOMAIN row} |->
        row[CHOOSE col \in DOMAIN row : Renamed(col) = n]]

\* The column the filter reads.
TargetColumn(type) == IF type = "embarque" THEN "Nº EMBARQUE" ELSE "Air Waybill"

\* df[df[col].astype(str).str.contains(value, case=False, na=False)]: after
\* astype(str) no element is missing, so na=False decides nothing.
FilterIndex(df, type, value) ==
    Keep([i \in 1..Len(df) |-> i],
         [i \in 1..Len(df) |-> str_contains(astype_str(df[i][TargetColumn(type)]), value)], 1)

\* The nine fields of info, and the column each is read from.
InfoFields ==
    {"TRANSPORTISTA", "FECHA FACTURA", "Nº EMBARQUE", "Air Waybill", "MARCA",
     "PROVEEDOR", "INCOTERM", "FORMA DE PAGO", "ESTADO"}

InfoColumn(campo) == IF campo = "MARCA" THEN "Marca" ELSE campo

\* info = {campo: primera_fila[col] if pd.notna(primera_fila[col]) else "", ...}
\* with str(...) around FECHA FACTURA.
Info(primera_fila) ==
    [campo \in InfoFields |->
        LET v == primera_fila[InfoColumn(campo)]
        IN  IF notna(v)
            THEN (IF campo = "FECHA FACTURA" THEN Txt(astype_str(v)) ELSE v)
            ELSE Txt(<<>>)]

\* --------------------------------------------------------------- GET /data

\* The columns df keeps in obtener_datos, before the rename.
ColsData ==
    {"Item", "Cantidad", "Num_OC", "Num_invoice", "Codigo", "Modelo", "Descripcion",
     "Material", "Uso", "PaisOrigen", "Moneda", "PCU1", "Sub Total", "Flete_US$",
     "Precio Total", "OperadorLogistico", "Fecha_Invoice", "GrupoImportacion",
     "Num_DocTransporte", "RazonSocial_Proveedor", "Incoterm", "Forma_Pago",
     "Status_OCI", "Marca"}

\* The numeric coercions and the two derived columns of obtener_datos.
Derivar(row, pcu, cant, flete) ==
    ("Sub Total" :> Num(pcu * cant)) @@ ("Precio Total" :> Num(pcu * cant + flete))
    @@ [row EXCEPT !["PCU1"] = Num(pcu), !["Cantidad"] = Num(cant),
                   !["Flete_US$"] = Num(flete)]

Calcular(row) ==
    Derivar(row, to_numeric(row["PCU1"]), to_numeric(row["Cantidad"]),
            to_numeric(row["Flete_US$"]))

\* df['FECHA FACTURA'] = df['FECHA FACTURA'].astype(str), after the
\* replace of nan by None: a missing date prints as the text nulo ("None"
\* for an object column, "NaT" for a datetime column).
FechaComoTexto(row, nulo) ==
    [row EXCEPT !["FECHA FACTURA"] =
        IF notna(@) THEN Txt(astype_str(@)) ELSE Txt(nulo)]

\* df of obtener_datos before the filter: coerced, projected, renamed.
FrameDatos(merged) ==
    [i \in 1..Len(merged) |-> rename([col \in ColsData |-> Calcular(merged[i])[col]])]

\* The rows of df at the positions idx.
Filas(df, idx) == [k \in 1..Len(idx) |-> df[idx[k]]]

\* The answer of obtener_datos from the filtered frame. The locals b (as
\* index labels), the merge result and the filter's positions are kept in it.
RespuestaFiltrada(base, filtrado, nulo) ==
    IF filtrado = <<>>
    THEN base @@ [status |-> 200, data |-> <<>>, info |-> "null", mensaje |-> TRUE]
    ELSE base @@ [status |-> 200,
                  data |-> [k \in 1..Len(filtrado) |-> FechaComoTexto(filtrado[k], nulo)],
                  info |-> Info(FechaComoTexto(filtrado[1], nulo)),
                  mensaje |-> FALSE]

FiltrarDatos(bidx, merged, df, fidx, type, value, nulo) ==
    RespuestaFiltrada(
        [op |-> "data", type |-> type, value |-> value, fase |-> "entregada",
         b_index |-> bidx, merged |-> merged, filtrado |-> fidx],
        Filas(df, fidx), nulo)

UnirDatos(bidx, merged, df, type, value, nulo) ==
    FiltrarDatos(bidx, merged, df, FilterIndex(df, type, value), type, value, nulo)

\* The body of obtener_datos once the flag and the files are there.
ProcesarDatos(a, c, type, value, nulo) ==
    UnirDatos(DedupIndex(a), merge(c, Dedup(a)), FrameDatos(merge(c, Dedup(a))),
              type, value, nulo)

\* ------------------------------------------------------------ POST /export

\* The export projection, in column order.
ColsExport ==
    <<"Item", "Cant", "Nº O.COMPRA", "FACTURA", "Codigo", "Modelo", "Descripcion",
      "Material", "Uso", "País De Origen", "Moneda", "Precio Unitario", "Sub Total",
      "Flete", "Precio Total">>

\* get_column_letter / column_index_from_string on the letters the code names.
Col(letter) ==
    CASE letter = "C" -> 3 [] letter = "D" -> 4 [] letter = "K" -> 11
      [] letter = "M" -> 13 [] letter = "N" -> 14 [] letter = "O" -> 15
      [] letter = "P" -> 16

\* A formula cell "=<a><row><op><b><row>".
Formula(a, op, b, row) ==
    [t |-> "formula", op |-> op, izq |-> <<row, Col(a)>>, der |-> <<row, Col(b)>>]

\* ws.cell(row, column, value) / ws['D2'] = value
Put(celdas, at, v) == (at :> v) @@ celdas

\* for col, value in enumerate(row, start=min_col): ws.cell(row_idx, col, value)
RECURSIVE WriteRow(_, _, _, _, _)
WriteRow(celdas, row, row_idx, min_col, k) ==
    IF k > Len(ColsExport) THEN celdas
    ELSE WriteRow(Put(celdas, <<row_idx, min_col + k - 1>>, row[ColsExport[k]]),
                  row, row_idx, min_col, k + 1)

\* for row_idx, row in enumerate(dataframe_to_rows(df_filtered), start=start_row)
RECURSIVE WriteRows(_, _, _, _, _)
WriteRows(celdas, rows, start_row, min_col, i) ==
    IF i > Len(rows) THEN celdas
    ELSE WriteRows(WriteRow(celdas, rows[i], start_row + i - 1, min_col, 1),
                   rows, start_row, min_col, i + 1)

\* for row in range(start_row, last_row + 1):
\*     ws[f'N{row}'] = f'=M{row}*C{row}' ; ws[f'P{row}'] = f'=O{row}+N{row}'
RECURSIVE WriteFormulas(_, _, _)
WriteFormulas(celdas, row, last_row) ==
    IF row > last_row THEN celdas
    ELSE WriteFormulas(
            Put(Put(celdas, <<row, Col("N")>>, Formula("M", "*", "C", row)),
                <<row, Col("P")>>, Formula("O", "+", "N", row)),
            row + 1, last_row)

\* ws['D2'] = info['TRANSPORTISTA'] ... ws['K6'] = info['MARCA']
WriteSummary(celdas, info) ==
    LET c1 == Put(celdas, <<2, Col("D")>>, info["TRANSPORTISTA"])
        c2 == Put(c1, <<4, Col("D")>>, info["Nº EMBARQUE"])
        c3 == Put(c2, <<5, Col("D")>>, info["Air Waybill"])
        c4 == Put(c3, <<2, Col("K")>>, info["PROVEEDOR"])
        c5 == Put(c4, <<3, Col("K")>>, info["INCOTERM"])
        c6 == Put(c5, <<4, Col("K")>>, info["FORMA DE PAGO"])
        c7 == Put(c6, <<5, Col("K")>>, info["ESTADO"])
    IN  Put(c7, <<6, Col("K")>>, info["MARCA"])

\* The workbook written from the template: rows below the table, the
\* table's new ref, the formulas and the summary cells.
\* ref is <<min_col, min_row, max_col, max_row>> (range_boundaries).
EscribirHoja(celdas, rows, info, min_col, start_row, last_row) ==
    WriteSummary(
        WriteFormulas(WriteRows(celdas, rows, start_row, min_col, 1), start_row, last_row),
        info)

\* The export with start_row = max_row: the first new row lands on the
\* table's last row.
ExportarSobreUltima(plantilla, rows, info) ==
    [ref |-> <<plantilla.ref[1], plantilla.ref[2], plantilla.ref[3],
               plantilla.ref[4] + Len(rows) - 1>>,
     celdas |-> EscribirHoja(plantilla.celdas, rows, info, plantilla.ref[1],
                             plantilla.ref[4], plantilla.ref[4] + Len(rows) - 1)]

Exportar(plantilla, rows, info) ==
    [ref |-> <<plantilla.ref[1], plantilla.ref[2], plantilla.ref[3],
               plantilla.ref[4] + Len(rows)>>,
     celdas |-> EscribirHoja(plantilla.celdas, rows, info, plantilla.ref[1],
                             plantilla.ref[4] + 1, plantilla.ref[4] + Len(rows))]

\* df of exportar_datos before the filter: the two zero columns, renamed.
FrameExport(merged) ==
    [i \in 1..Len(merged) |->
        rename(("Sub Total" :> Num(0)) @@ ("Precio Total" :> Num(0)) @@ merged[i])]

\* df_filtered[[...]]: the export projection.
Proyectar(df_filtered) ==
    [k \in 1..Len(df_filtered) |->
        [col \in {ColsExport[j] : j \in 1..Len(ColsExport)} |-> df_filtered[k][col]]]

ErrorExport(base, status) == base @@ [status |-> status, fase |-> "entregada"]

\* exportar_datos from "wb = load_workbook(ruta_plantilla)" on.
EscribirExport(base, plantilla, primera_fila, info, rows) ==
    IF ~plantilla.existe
    THEN ErrorExport(base, 404)    \* load_workbook: FileNotFoundError
    ELSE IF ~plantilla.tabla
    THEN ErrorExport(base, 500)    \* ws.tables['Tabla24']: KeyError
    ELSE IF ~notna(primera_fila["FECHA FACTURA"])
    THEN ErrorExport(base, 500)    \* NaT.strftime: ValueError
    ELSE base @@ [status |-> 200, fase |-> "enviando",
                  info |-> [info EXCEPT !["FECHA FACTURA"] =
                               Txt(strftime_dmy(primera_fila["FECHA FACTURA"]))],
                  wb |-> Exportar(plantilla, rows, info)]

\* exportar_datos from "primera_fila = df_filtered.iloc[0]" on.
ResumirExport(base, plantilla, df_filtered) ==
    IF df_filtered = <<>>
    THEN ErrorExport(base, 500)    \* df_filtered.iloc[0]: IndexError
    ELSE IF Proyectar(df_filtered) = <<>>
    THEN ErrorExport(base, 500)    \* the HTTPException(404) raised inside the
                                   \* try is caught by "except Exception"
    ELSE EscribirExport(base, plantilla, df_filtered[1], Info(df_filtered[1]),
                        Proyectar(df_filtered))

FiltrarExport(bidx, merged, df, fidx, plantilla, type, value) ==
    ResumirExport(
        [op |-> "export", type |-> type, value |-> value,
         b_index |-> bidx, merged |-> merged, filtrado |-> fidx],
        plantilla, Filas(df, fidx))

UnirExport(bidx, merged, df, plantilla, type, value) ==
    FiltrarExport(bidx, merged, df, FilterIndex(df, type, value), plantilla, type, value)

\* The body of exportar_datos once the flag and the two source files are
\* there; plantilla.existe and plantilla.tabla say whether Plantilla.xlsx
\* and its table Tabla24 are.
ProcesarExport(a, c, plantilla, type, value) ==
    UnirExport(DedupIndex(a), merge(c, Dedup(a)), FrameExport(merge(c, Dedup(a))),
               plantilla, type, value)

\* ------------------------------------------------------------------ state

\* archivos_config, by file name.
archivos_config == {"002_Compras_OCI.xlsx", "Traduccion-Equipos.xlsx"}

\* ThreadPoolExecutor(max_workers=4)
max_workers == 4

Clientes == {"c1", "c2"}

VARIABLES
    archivos_inicializados, \* the module-level readiness flag
    servidor,               \* "arrancando" until startup_event returns, then "sirviendo"
    disco,                  \* the configured files present in download_dir
    pool,                   \* the run of sincronizar_archivos in progress, if any
    resultado,              \* the report of the last run of sincronizar_archivos
    algun_exitoso,          \* history: some run has reported exitoso = True
    traduccion,             \* rows of Traduccion-Equipos.xlsx, sheet Datos
    compras,                \* rows of 002_Compras_OCI.xlsx
    plantilla,              \* Plantilla.xlsx: existe, tabla (Tabla24), ref, celdas
    archivo_salida,         \* the workbook at the fixed output path
    resp,                   \* per client: the request in progress or answered
    solapada                \* history, per client: another export ran while
                            \* this client's export was waiting to be sent

vars == <<archivos_inicializados, servidor, disco, pool, resultado, algun_exitoso,
          traduccion, compras, plantilla, archivo_salida, resp, solapada>>

Libre == [fase |-> "libre"]

PoolInactivo == [fase |-> "inactivo"]

SinArchivo == [ref |-> <<>>, celdas |-> <<>>]

\* ------------------------------------------------------- synchronisation

\* sincronizar_archivos up to the submit of one future per configured file;
\* when obtener_token or obtener_drive_id raises, the except branch reports.
\* quien is "startup" (startup_event) or "sync" (POST /sync).
InformeFallo ==
    [exitoso |-> FALSE, archivos_descargados |-> 0,
     total_archivos |-> Cardinality(archivos_config), errores |-> 1,
     token |-> FALSE, futuros |-> [f \in archivos_config |-> "pendiente"]]

IniciarSync(quien, token) ==
    /\ pool.fase = "inactivo"
    /\ \/ quien = "startup" /\ servidor = "arrancando"
       \/ quien = "sync" /\ servidor = "sirviendo"
    /\ IF token
       THEN /\ pool' = [fase |-> "pool", quien |-> quien,
                        futuros |-> [f \in archivos_config |-> "pendiente"],
                        recogidos |-> {}, archivos_descargados |-> <<>>,
                        errores |-> <<>>]
            /\ UNCHANGED <<resultado, servidor>>
       ELSE /\ resultado' = InformeFallo
            /\ servidor' = "sirviendo"
            /\ UNCHANGED pool
    /\ UNCHANGED <<archivos_inicializados, disco, algun_exitoso, traduccion, compras,
                   plantilla, archivo_salida, resp, solapada>>

\* A worker of the pool takes a submitted future.
Arrancar(f) ==
    /\ pool.fase = "pool"
    /\ pool.futuros[f] = "pendiente"
    /\ Cardinality({g \in archivos_config : pool.futuros[g] = "corriendo"}) < max_workers
    /\ pool' = [pool EXCEPT !.futuros[f] = "corriendo"]
    /\ UNCHANGED <<archivos_inicializados, servidor, disco, resultado, algun_exitoso,
                   traduccion, compras, plantilla, archivo_salida, resp, solapada>>

\* descargar_archivo returns (ruta, None) after writing the file, or
\* (None, error) on a bad status, a missing URL or any exception.
descargar_archivo(f, ok) ==
    /\ pool.fase = "pool"
    /\ pool.futuros[f] = "corriendo"
    /\ pool' = [pool EXCEPT !.futuros[f] = IF ok THEN "ok" ELSE "error"]
    /\ disco' = IF ok THEN disco \cup {f} ELSE disco
    /\ UNCHANGED <<archivos_inicializados, servidor, resultado, algun_exitoso,
                   traduccion, compras, plantilla, archivo_salida, resp, solapada>>

\* One turn of "for future in as_completed(futures)".
Recoger(f) ==
    /\ pool.fase = "pool"
    /\ pool.futuros[f] \in {"ok", "error"}
    /\ f \notin pool.recogidos
    /\ pool' = [pool EXCEPT
                  !.recogidos = @ \cup {f},
                  !.errores = IF pool.futuros[f] = "error" THEN Append(@, f) ELSE @,
                  !.archivos_descargados =
                      IF pool.futuros[f] = "error" THEN @ ELSE Append(@, f)]
    /\ UNCHANGED <<archivos_inicializados, servidor, disco, resultado, algun_exitoso,
                   traduccion, compras, plantilla, archivo_salida, resp, solapada>>

\* The report with exitoso = some file was downloaded.
InformeAlguno(p) ==
    [exitoso |-> Len(p.archivos_descargados) > 0,
     archivos_descargados |-> Len(p.archivos_descargados),
     total_archivos |-> Cardinality(archivos_config),
     errores |-> Len(p.errores),
     token |-> TRUE, futuros |-> p.futuros]

\* The report of sincronizar_archivos after the loop.
Informe(p) ==
    [exitoso |-> Len(p.errores) = 0,
     archivos_descargados |-> Len(p.archivos_descargados),
     total_archivos |-> Cardinality(archivos_config),
     errores |-> Len(p.errores),
     token |-> TRUE, futuros |-> p.futuros]

\* The flag following the last report: archivos_inicializados = resultado["exitoso"]
NuevaBanderaUltimo(bandera, informe) == informe.exitoso

\* if resultado["exitoso"]: archivos_inicializados = True
NuevaBandera(bandera, informe) == bandera \/ informe.exitoso

\* The loop has seen every future: sincronizar_archivos returns and its
\* caller (startup_event or sincronizar) sets the flag.
Terminar ==
    /\ pool.fase = "pool"
    /\ pool.recogidos = archivos_config
    /\ resultado' = Informe(pool)
    /\ archivos_inicializados' = NuevaBandera(archivos_inicializados, Informe(pool))
    /\ algun_exitoso' = (algun_exitoso \/ Informe(pool).exitoso)
    /\ servidor' = "sirviendo"
    /\ pool' = PoolInactivo
    /\ UNCHANGED <<disco, traduccion, compras, plantilla, archivo_salida, resp, solapada>>

\* ---------------------------------------------------------------- requests

Error(op, type, value, status) ==
    [op |-> op, type |-> type, value |-> value, status |-> status, fase |-> "entregada"]

\* GET /
read_root(cl) ==
    /\ servidor = "sirviendo"
    /\ resp[cl].fase = "libre"
    /\ resp' = [resp EXCEPT ![cl] =
                  [op |-> "root", status |-> 200, fase |-> "entregada",
                   archivos_inicializados |-> archivos_inicializados,
                   exito_previo |-> algun_exitoso]]
    /\ UNCHANGED <<archivos_inicializados, servidor, disco, pool, resultado,
                   algun_exitoso, traduccion, compras, plantilla, archivo_salida,
                   solapada>>

\* The answer of GET /data.
RespuestaDatos(type, value, nulo) ==
    IF ~archivos_inicializados THEN Error("data", type, value, 503)
    ELSE IF ~(archivos_config \subseteq disco) THEN Error("data", type, value, 404)
    ELSE ProcesarDatos(traduccion, compras, type, value, nulo)

obtener_datos(cl, type, value, nulo) ==
    /\ servidor = "sirviendo"
    /\ resp[cl].fase = "libre"
    /\ resp' = [resp EXCEPT ![cl] =
                  RespuestaDatos(type, value, nulo) @@ [exito_previo |-> algun_exitoso]]
    /\ UNCHANGED <<archivos_inicializados, servidor, disco, pool, resultado,
                   algun_exitoso, traduccion, compras, plantilla, archivo_salida,
                   solapada>>

\* The answer of POST /export, before the file is sent.
RespuestaExport(type, value) ==
    IF ~archivos_inicializados THEN Error("export", type, value, 503)
    ELSE IF ~(archivos_config \subseteq disco) THEN Error("export", type, value, 404)
    ELSE ProcesarExport(traduccion, compras, plantilla, type, value)

\* The save left out: the file at the fixed path stays as it was.
GuardarNada(wb, anterior) == anterior

\* wb.save(output_file): the file at the fixed path after the save.
Guardar(wb, anterior) == wb

\* exportar_datos through "return FileResponse(path=output_file, ...)".
Responder(cl, r) ==
    /\ resp' = [resp EXCEPT ![cl] = r @@ [exito_previo |-> algun_exitoso]]
    /\ archivo_salida' = IF r.status = 200 THEN Guardar(r.wb, archivo_salida)
                         ELSE archivo_salida

exportar_datos(cl, type, value) ==
    /\ servidor = "sirviendo"
    /\ resp[cl].fase = "libre"
    /\ Responder(cl, RespuestaExport(type, value))
    /\ solapada' = [o \in Clientes |->
                      IF o = cl THEN \E x \in Clientes \ {cl} : resp[x].fase = "enviando"
                      ELSE solapada[o] \/ resp[o].fase = "enviando"]
    /\ UNCHANGED <<archivos_inicializados, servidor, disco, pool, resultado,
                   algun_exitoso, traduccion, compras, plantilla>>

\* What FileResponse reads from the path when the response is sent.
ArchivoEnviado(cl) == archivo_salida

\* The FileResponse is sent: the file is read from output_file now, after
\* the handler has returned.
Enviar(cl) ==
    /\ resp[cl].fase = "enviando"
    /\ resp' = [resp EXCEPT ![cl] =
                  [archivo |-> ArchivoEnviado(cl)] @@ [@ EXCEPT !.fase = "entregada"]]
    /\ UNCHANGED <<archivos_inicializados, servidor, disco, pool, resultado,
                   algun_exitoso, traduccion, compras, plantilla, archivo_salida,
                   solapada>>

\* The client has its answer and may ask again.
Recibir(cl) ==
    /\ resp[cl].fase = "entregada"
    /\ resp' = [resp EXCEPT ![cl] = Libre]
    /\ solapada' = [solapada EXCEPT ![cl] = FALSE]
    /\ UNCHANGED <<archivos_inicializados, servidor, disco, pool, resultado,
                   algun_exitoso, traduccion, compras, plantilla, archivo_salida>>

\* ------------------------------------------------------------------ inputs

\* Longest reference table and longest purchase table drawn.
MaxTraduccion == 3
MaxCompras == 2

\* Left edges (columns 1..MaxIzquierda) and body rows (0..MaxFilasTabla) of
\* the template's table, and the row of its header.
MaxIzquierda == 2
MaxFilasTabla == 1
FilaCabecera == 8

FilaTraduccion(modelo, codigo, marca) ==
    [Modelo |-> modelo, Codigo |-> codigo, Marca |-> marca,
     Descripcion |-> Txt(<<"d">>), Material |-> NaN, Uso |-> Txt(<<"u">>)]

\* Reference rows: a model twice with two codes, a second model, a missing
\* model, and two rows whose Modelo and Codigo differ but whose ID is the
\* same text "M1-C-2".
FilasTraduccion ==
    { FilaTraduccion(Txt(<<"M", "1">>), Txt(<<"C", "1">>), Txt(<<"K", "X">>)),
      FilaTraduccion(Txt(<<"M", "1">>), Txt(<<"C", "2">>), NaN),
      FilaTraduccion(Txt(<<"M", "2">>), Txt(<<"C", "1">>), Txt(<<"K", "Y">>)),
      FilaTraduccion(NaN, Txt(<<"C", "1">>), Txt(<<"K", "Z">>)),
      FilaTraduccion(Txt(<<"M", "1", "-", "C">>), Txt(<<"2">>), Txt(<<"K", "W">>)),
      FilaTraduccion(Txt(<<"M", "1">>), Txt(<<"C", "-", "2">>), Txt(<<"K", "V">>)) }

FilaCompra(item, clave, embarque, waybill, fecha, otros, cantidad) ==
    [Item |-> Num(item), Codigo_Comercial |-> clave, GrupoImportacion |-> embarque,
     Num_DocTransporte |-> waybill, Fecha_Invoice |-> fecha,
     OperadorLogistico |-> otros, RazonSocial_Proveedor |-> otros,
     Incoterm |-> otros, Forma_Pago |-> otros, Status_OCI |-> otros,
     Cantidad |-> cantidad, PCU1 |-> Num(5), Num_OC |-> Txt(<<"7">>),
     Num_invoice |-> Num(12), PaisOrigen |-> NaN, Moneda |-> Txt(<<"U">>)]
    @@ ("Flete_US$" :> Num(1))

\* Purchase rows: matched, unmatched and missing keys, a key twice, missing
\* and present identifiers, dates and summary fields, and quantities that
\* are numbers, numeric text, other text or missing.
FilasCompras ==
    { FilaCompra(1, Txt(<<"M", "1">>), Txt(<<"X", "A", "B", "Y">>), Txt(<<"Z", "9">>),
                 Fecha(2024, 1, 5), Txt(<<"T">>), Num(2)),
      FilaCompra(2, Txt(<<"M", "1">>), NaN, Txt(<<"a", "b">>),
                 NaN, NaN, Txt(<<"1", "2">>)),
      FilaCompra(3, Txt(<<"M", "2">>), Txt(<<"a", "b">>), NaN,
                 Fecha(2023, 12, 31), NaN, Txt(<<"x">>)),
      FilaCompra(4, NaN, Txt(<<"X", "A", "B", "Y">>), NaN,
                 NaN, Txt(<<"T">>), NaN),
      FilaCompra(5, Txt(<<"M", "9">>), NaN, NaN,
                 Fecha(2024, 1, 5), Txt(<<"S">>), Num(3)) }

\* All sequences of at most n elements of S.
SeqsUpTo(S, n) == UNION {[1..k -> S] : k \in 0..n}

\* The filter values of a request: the empty text, letters in either case,
\* the letters of "nan", and the regex wildcard.
Valores ==
    { <<>>, <<"a", "b">>, <<"X", "a">>, <<"a", "n">>, <<".">>, <<"9", ".">>, <<"q">> }

Tipos == {"embarque", "waybill"}

\* How a missing date prints after the replace in obtener_datos.
NombresNulo == { <<"N", "o", "n", "e">>, <<"N", "a", "T">> }

\* Plantilla.xlsx: the table's ref is <<min_col, min_row, max_col, max_row>>,
\* as wide as the export projection; its own cells hold a marker.
Plantilla(existe, tabla, min_col, min_row, filas) ==
    [existe |-> existe, tabla |-> tabla,
     ref |-> <<min_col, min_row, min_col + Len(ColsExport) - 1, min_row + filas>>,
     celdas |-> [x \in (min_row..(min_row + filas)) \X (min_col..(min_col + Len(ColsExport) - 1))
                    |-> [t |-> "plantilla"]]]

Plantillas ==
    { Plantilla(TRUE, TRUE, mc, FilaCabecera, n) : mc \in 1..MaxIzquierda, n \in 0..MaxFilasTabla }
    \cup { Plantilla(FALSE, FALSE, 2, FilaCabecera, 0), Plantilla(TRUE, FALSE, 2, FilaCabecera, 0) }

PlantillaFija == Plantilla(TRUE, TRUE, 2, FilaCabecera, 1)

\* The fixed tables of the specifications that do not vary them.
TraduccionFija ==
    << FilaTraduccion(Txt(<<"M", "1">>), Txt(<<"C", "1">>), Txt(<<"K", "X">>)),
       FilaTraduccion(Txt(<<"M", "1">>), Txt(<<"C", "2">>), NaN),
       FilaTraduccion(Txt(<<"M", "2">>), Txt(<<"C", "1">>), Txt(<<"K", "Y">>)) >>

ComprasFija ==
    << FilaCompra(1, Txt(<<"M", "1">>), Txt(<<"X", "A", "B", "Y">>), Txt(<<"Z", "9">>),
                  Fecha(2024, 1, 5), Txt(<<"T">>), Num(2)),
       FilaCompra(3, Txt(<<"M", "2">>), Txt(<<"a", "b">>), NaN,
                  Fecha(2023, 12, 31), NaN, Txt(<<"x">>)),
       FilaCompra(5, Txt(<<"M", "9">>), NaN, NaN,
                  Fecha(2024, 1, 5), Txt(<<"S">>), Num(3)) >>

\* --------------------------------------------------------- specifications

InformeExito ==
    [exitoso |-> TRUE, archivos_descargados |-> Cardinality(archivos_config),
     total_archivos |-> Cardinality(archivos_config), errores |-> 0,
     token |-> TRUE, futuros |-> [f \in archivos_config |-> "ok"]]

\* The process as it starts: nothing downloaded, startup_event about to run.
Init ==
    /\ archivos_inicializados = FALSE
    /\ servidor = "arrancando"
    /\ disco = {}
    /\ pool = PoolInactivo
    /\ resultado = [exitoso |-> FALSE, archivos_descargados |-> 0,
                    total_archivos |-> Cardinality(archivos_config), errores |-> 0,
                    token |-> FALSE, futuros |-> [f \in archivos_config |-> "pendiente"]]
    /\ algun_exitoso = FALSE
    /\ traduccion = TraduccionFija
    /\ compras = ComprasFija
    /\ plantilla = PlantillaFija
    /\ archivo_salida = SinArchivo
    /\ resp = [cl \in Clientes |-> Libre]
    /\ solapada = [cl \in Clientes |-> FALSE]

Sincronizacion ==
    \/ \E quien \in {"startup", "sync"}, token \in BOOLEAN : IniciarSync(quien, token)
    \/ \E f \in archivos_config : Arrancar(f)
    \/ \E f \in archivos_config, ok \in BOOLEAN : descargar_archivo(f, ok)
    \/ \E f \in archivos_config : Recoger(f)
    \/ Terminar

\* Startup, /sync, and one client asking /, /data and /export.
Next ==
    \/ Sincronizacion
    \/ read_root("c1")
    \/ \E type \in Tipos, value \in {<<"a", "b">>, <<"q">>}, nulo \in NombresNulo :
          obtener_datos("c1", type, value, nulo)
    \/ \E type \in Tipos, value \in {<<"a", "b">>, <<"q">>} :
          exportar_datos("c1", type, value)
    \/ Enviar("c1")
    \/ Recibir("c1")

Spec == Init /\ [][Next]_vars

\* The process after a successful startup, over every pair of tables and
\* every template of the bounds.
InitTablas ==
    /\ archivos_inicializados = TRUE
    /\ servidor = "sirviendo"
    /\ disco = archivos_config
    /\ pool = PoolInactivo
    /\ resultado = InformeExito
    /\ algun_exitoso = TRUE
    /\ \/ /\ traduccion \in SeqsUpTo(FilasTraduccion, MaxTraduccion)
          /\ compras = ComprasFija
          /\ plantilla = PlantillaFija
       \/ /\ traduccion = TraduccionFija
          /\ compras \in SeqsUpTo(FilasCompras, MaxCompras)
          /\ plantilla = PlantillaFija
       \/ /\ traduccion = TraduccionFija
          /\ compras = ComprasFija
          /\ plantilla \in Plantillas
    /\ archivo_salida = SinArchivo
    /\ resp = [cl \in Clientes |-> Libre]
    /\ solapada = [cl \in Clientes |-> FALSE]

\* One client asking /data or /export once, with every type and value.
NextTablas ==
    \/ \E type \in Tipos, value \in Valores, nulo \in NombresNulo :
          obtener_datos("c1", type, value, nulo)
    \/ \E type \in Tipos, value \in Valores : exportar_datos("c1", type, value)
    \/ Enviar("c1")

SpecTablas == InitTablas /\ [][NextTablas]_vars

\* The process after a successful startup, with the fixed tables and every
\* template that has its table.
InitExport ==
    /\ archivos_inicializados = TRUE
    /\ servidor = "sirviendo"
    /\ disco = archivos_config
    /\ pool = PoolInactivo
    /\ resultado = InformeExito
    /\ algun_exitoso = TRUE
    /\ traduccion = TraduccionFija
    /\ compras = ComprasFija
    /\ plantilla \in {p \in Plantillas : p.existe /\ p.tabla}
    /\ archivo_salida = SinArchivo
    /\ resp = [cl \in Clientes |-> Libre]
    /\ solapada = [cl \in Clientes |-> FALSE]

\* Two clients exporting at the same time.
NextExport ==
    \/ \E cl \in Clientes, type \in Tipos, value \in {<<"a", "b">>, <<"X", "a">>, <<"q">>} :
          exportar_datos(cl, type, value)
    \/ \E cl \in Clientes : Enviar(cl)
    \/ \E cl \in Clientes : Recibir(cl)

SpecExport == InitExport /\ [][NextExport]_vars

\* ------------------------------------------------------------------ claims

\* The client's request went through the pipeline (flag set, files read).
Procesada(cl) ==
    /\ resp[cl].fase # "libre"
    /\ resp[cl].op \in {"data", "export"}
    /\ "merged" \in DOMAIN resp[cl]

\* The client has a workbook built by a successful export.
Exportada(cl) ==
    /\ resp[cl].fase # "libre"
    /\ resp[cl].op = "export"
    /\ resp[cl].status = 200

\* The column of the merge result that a display name was renamed from.
Original(nombre) == CHOOSE col \in ColsCompras \cup ColsB : Renamed(col) = nombre

\* s contains v as a literal, case-insensitive substring.
ContieneLiteral(s, v) ==
    \E off \in 0..(Len(s) - Len(v)) : \A j \in 1..Len(v) : lower(v[j]) = lower(s[off + j])

\* f is strictly increasing.
Creciente(f) == \A i, j \in 1..Len(f) : i < j => f[i] < f[j]

Rango(f) == {f[i] : i \in 1..Len(f)}

\* C1: an /export whose filter retains no joined row, made while the
\* sources are initialized and readable, is answered with HTTP 404.
C1_ExportVacioEs404 ==
    \A cl \in Clientes :
        (Procesada(cl) /\ resp[cl].op = "export" /\ resp[cl].filtrado = <<>>)
            => resp[cl].status = 404

\* C2: a /data or /export request is answered 503 exactly when no
\* synchronisation run (startup or /sync) had reported exitoso = true
\* before it, and GET / reports that same readiness value.
C2_NoListoEs503 ==
    \A cl \in Clientes :
        resp[cl].fase # "libre" =>
            /\ resp[cl].op \in {"data", "export"} =>
                   (resp[cl].status = 503 <=> ~resp[cl].exito_previo)
            /\ resp[cl].op = "root" =>
                   (resp[cl].archivos_inicializados = resp[cl].exito_previo)

\* A request answered 503 after a run whose token lookup succeeded reported
\* a failure.
C2_Testigo ==
    /\ resp["c1"].fase # "libre"
    /\ resp["c1"].op \in {"data", "export"}
    /\ resp["c1"].status = 503
    /\ resultado.token
    /\ ~resultado.exitoso

\* C3: the filter retains exactly the joined rows whose target cell is
\* non-null and whose string form contains the value as a case-insensitive
\* substring.
C3_FiltroSubcadena ==
    \A cl \in Clientes :
        Procesada(cl) =>
            /\ Creciente(resp[cl].filtrado)
            /\ Rango(resp[cl].filtrado) =
                  {i \in 1..Len(resp[cl].merged) :
                      LET v == resp[cl].merged[i][Original(TargetColumn(resp[cl].type))]
                      IN  notna(v) /\ ContieneLiteral(astype_str(v), resp[cl].value)}

\* C4: when token and drive lookup succeed, every configured file is
\* attempted and the report counts the outcomes: exitoso = no fetch failed,
\* archivos_descargados = successes, errores = failures, total_archivos =
\* configured files.
C4_InformeSync ==
    resultado.token =>
        /\ \A f \in archivos_config : resultado.futuros[f] \in {"ok", "error"}
        /\ resultado.exitoso = (\A f \in archivos_config : resultado.futuros[f] = "ok")
        /\ resultado.archivos_descargados =
              Cardinality({f \in archivos_config : resultado.futuros[f] = "ok"})
        /\ resultado.errores =
              Cardinality({f \in archivos_config : resultado.futuros[f] = "error"})
        /\ resultado.total_archivos = Cardinality(archivos_config)

\* A run in which one fetch failed and another succeeded has reported.
C4_Testigo ==
    /\ resultado.token
    /\ \E f, g \in archivos_config :
          resultado.futuros[f] = "ok" /\ resultado.futuros[g] = "error"
    /\ resultado.archivos_descargados = 1

\* C5: the join output holds every purchase row exactly once, in
\* purchase-table order, matched or not, and the deduplicated reference
\* table has unique Codigo_Comercial values.
C5_JoinIzquierdo ==
    \A cl \in Clientes :
        Procesada(cl) =>
            /\ [i \in 1..Len(resp[cl].merged) |->
                  [col \in ColsCompras |-> resp[cl].merged[i][col]]] = compras
            /\ \A i, j \in Rango(resp[cl].b_index) :
                  i # j => traduccion[i]["Modelo"] # traduccion[j]["Modelo"]

\* A join of a purchase table against a reference table that had duplicate
\* models, with a matched and an unmatched purchase row.
C5_Testigo ==
    /\ Procesada("c1")
    /\ Len(resp["c1"].b_index) < Len(traduccion)
    /\ \E i, j \in 1..Len(resp["c1"].merged) :
          /\ notna(resp["c1"].merged[i]["ID"])
          /\ ~notna(resp["c1"].merged[j]["ID"])

\* Row i of the reference table repeats the composite key of an earlier row.
ChoqueID(i) == \E j \in 1..(i - 1) : ID(traduccion[j]) = ID(traduccion[i])

\* C6: deduplication is order-preserving: survivors keep their original
\* relative order, and the survivor of a Modelo is its first row among the
\* rows with no earlier composite-key clash.
C6_DedupOrden ==
    \A cl \in Clientes :
        Procesada(cl) =>
            /\ Creciente(resp[cl].b_index)
            /\ Rango(resp[cl].b_index) =
                  {i \in 1..Len(traduccion) :
                      /\ ~ChoqueID(i)
                      /\ \A j \in 1..(i - 1) :
                            traduccion[j]["Modelo"] = traduccion[i]["Modelo"] => ChoqueID(j)}

\* A dedup in which the survivor of a Modelo is not that Modelo's first
\* row, because the first one clashed on the composite key with a row of
\* another Modelo.
C6_Testigo ==
    /\ Procesada("c1")
    /\ \E i, k \in 1..Len(traduccion) :
          /\ i < k
          /\ traduccion[i]["Modelo"] = traduccion[k]["Modelo"]
          /\ ChoqueID(i)
          /\ k \in Rango(resp["c1"].b_index)

\* C7: for a non-empty filtered result, each field of info is copied (the
\* date in its string or DD/MM/YYYY form) from the first filtered row, and
\* is the empty string when that row's value is missing.
C7_InfoPrimeraFila ==
    \A cl \in Clientes :
        (Procesada(cl) /\ resp[cl].status = 200 /\ resp[cl].filtrado # <<>>) =>
            \A campo \in InfoFields :
                LET v == resp[cl].merged[resp[cl].filtrado[1]][Original(InfoColumn(campo))]
                IN  IF notna(v)
                    THEN \/ resp[cl].info[campo] = v
                         \/ /\ campo = "FECHA FACTURA"
                            /\ resp[cl].info[campo] \in
                                  {Txt(astype_str(v)), Txt(strftime_dmy(v))}
                    ELSE resp[cl].info[campo] = Txt(<<>>)

\* The value the export writes for row k of the filtered set in the j-th
\* export column.
ValorExportado(cl, k, j) ==
    IF ColsExport[j] \in {"Sub Total", "Precio Total"} THEN Num(0)
    ELSE resp[cl].merged[resp[cl].filtrado[k]][Original(ColsExport[j])]

Pos(nombre) == CHOOSE j \in 1..Len(ColsExport) : ColsExport[j] = nombre

\* C9: in every newly written row r, for every left edge of the table, the
\* Sub Total cell is a formula multiplying row r's Cant and Precio Unitario
\* cells and the Precio Total cell a formula adding row r's Sub Total and
\* Flete cells.
C9_FormulasDeLaFila ==
    \A cl \in Clientes :
        Exportada(cl) =>
            \A k \in 1..Len(resp[cl].filtrado) :
                LET r == plantilla.ref[4] + k
                    celda(nombre) == <<r, plantilla.ref[1] + Pos(nombre) - 1>>
                    sub == resp[cl].wb.celdas[celda("Sub Total")]
                    tot == resp[cl].wb.celdas[celda("Precio Total")]
                IN  /\ sub.t = "formula"
                    /\ sub.op = "*"
                    /\ {sub.izq, sub.der} = {celda("Cant"), celda("Precio Unitario")}
                    /\ tot.t = "formula"
                    /\ tot.op = "+"
                    /\ {tot.izq, tot.der} = {celda("Sub Total"), celda("Flete")}

\* C10: an export that no other export overlapped receives the workbook it
\* built; two overlapping exports can receive each other's (the witness).
C10_SinSolapeRecibeElSuyo ==
    \A cl \in Clientes :
        (Exportada(cl) /\ resp[cl].fase = "entregada" /\ ~solapada[cl])
            => resp[cl].archivo = resp[cl].wb

\* An overlapped export was answered with the workbook the other request
\* saved, not its own.
C10_Testigo ==
    \E cl \in Clientes, o \in Clientes :
        /\ cl # o
        /\ Exportada(cl) /\ resp[cl].fase = "entregada" /\ solapada[cl]
        /\ Exportada(o)
        /\ resp[cl].archivo = resp[o].wb
        /\ resp[cl].archivo # resp[cl].wb

====
